---- MODULE Spec2Model ----
(***************************************************************************)
(* Model of the flex-py build-and-stage pipeline: the pdm backend hooks of *)
(* pdm_build.py and the setuptools command BuildFlex of setup.py.          *)
(*                                                                         *)
(* Encoding of Python values                                               *)
(*   - a directory is a function from the paths of the files under it to   *)
(*     their contents; a path exists iff it is in the DOMAIN;              *)
(*   - a dict is a function whose DOMAIN is its key set;                   *)
(*   - None is the string "None" where a str is expected, and PyNone where *)
(*     a config value (str or list) is expected; config values are tagged  *)
(*     sequences PyStr(s) and PyList(l);                                   *)
(*   - an exception is the string naming it, NoErr when none was raised.   *)
(***************************************************************************)
EXTENDS Integers, Sequences, FiniteSets, TLC

\* Number of pipeline invocations explored in one behaviour.
MaxRuns == 2

----------------------------------------------------------------------------
\* Python values

None == "None"
PyNone == <<"None">>
PyStr(s) == <<"str", s>>
PyList(l) == <<"list">> \o l

NoErr == "ok"

EmptyDir == [p \in {} |-> 0]

Range(s) == {s[i] : i \in 1..Len(s)}

\* {**a, **b}: the keys of both, b winning on the keys they share.
DictMerge(a, b) ==
    [k \in (DOMAIN a) \cup (DOMAIN b) |-> IF k \in DOMAIN b THEN b[k] ELSE a[k]]

\* d[k] = v on a dict, adding the key when absent.
DictSet(d, k, v) ==
    [j \in (DOMAIN d) \cup {k} |-> IF j = k THEN v ELSE d[j]]

\* str.startswith
startswith(s, prefix) ==
    /\ Len(s) >= Len(prefix)
    /\ SubSeq(s, 1, Len(prefix)) = prefix

----------------------------------------------------------------------------
\* Module constants of pdm_build.py

FLEX_VERSION == "2.6.4"
FLEX_TARBALL_NAME == "flex-" \o FLEX_VERSION \o ".tar.gz"
SrcDirName == "flex-" \o FLEX_VERSION
OutputPath == "gnu_flex/bin/flex"
Mode755 == 493

\* subprocess.check_call could not start the command (the exec failed).
SpawnFailed == -1

----------------------------------------------------------------------------
\* The environment the pipeline runs in

\* platform.machine().strip().lower().replace("-", "_")
Archs ==
    { "x86_64", "amd64", "aarch64", "arm64", "i386", "i486", "i586", "i686",
      "x86", "s390x", "armv7l", "armv7", "ppc64le", "riscv64" }

\* sys.platform
Platforms == { "linux", "linux2", "darwin" }

\* What a flex archive unpacks to: its top-level entries and, for the
\* flex-<version> entry, the build files it holds.  gz is FALSE for bytes
\* that are no gzip'ed tar at all.
Archive(roots, configure, autogen) ==
    [gz |-> TRUE, roots |-> roots, configure |-> configure, autogen |-> autogen]

NotAnArchive ==
    [gz |-> FALSE, roots |-> {}, configure |-> FALSE, autogen |-> FALSE]

Archives ==
    { Archive({SrcDirName}, TRUE, FALSE),
      Archive({SrcDirName}, FALSE, TRUE),
      Archive({SrcDirName}, FALSE, FALSE),
      Archive({SrcDirName, "extra"}, TRUE, FALSE),
      Archive({"flex-2.6.3"}, TRUE, FALSE),
      Archive({"flex-2.6.3", "extra"}, TRUE, FALSE) }

\* HTTP status codes of the final response of requests.get; a response
\* with raised = TRUE stands for requests.get raising (timeout, no route).
StatusCodes == { 200, 300, 404, 503 }

Responses(upstream_) ==
    { [raised |-> TRUE, status_code |-> 0, content |-> NotAnArchive] }
    \cup
    { [raised |-> FALSE, status_code |-> s,
       content |-> IF s = 200 THEN upstream_ ELSE NotAnArchive] :
         s \in StatusCodes }

\* Exit statuses of configure, make and make install, and whether the
\* install step leaves <stage>/usr/local/bin/flex behind.  The status of a
\* step that comes after a failed one is never observed and is fixed at 0.
ExitCodes == { 0, 1 }

ProcOutcomes ==
    { p \in [configure : ExitCodes, make : ExitCodes, install : ExitCodes,
             binary : BOOLEAN] :
        /\ p.configure # 0 => (p.make = 0 /\ p.install = 0 /\ ~p.binary)
        /\ p.make # 0 => (p.install = 0 /\ ~p.binary) }

NoProcs == [configure |-> 0, make |-> 0, install |-> 0, binary |-> FALSE]

\* Exit status of sh autogen.sh and whether it leaves a configure script.
AutogenOutcomes == [rc : ExitCodes, generates : BOOLEAN]

NoAutogen == [rc |-> 0, generates |-> FALSE]

\* context.builder.config_settings as supplied by the caller of the build.
CallerFull ==
    [k \in {"--python-tag", "--py-limited-api", "--plat-name", "--build-number"} |->
        CASE k = "--python-tag" -> PyStr("cp39")
          [] k = "--py-limited-api" -> PyStr("cp38")
          [] k = "--plat-name" -> PyStr("linux_custom")
          [] k = "--build-number" -> PyStr("7")]

CallerKeySets ==
    { {}, {"--python-tag"}, {"--py-limited-api"},
      {"--plat-name", "--build-number"}, {"--build-number"} }

CallerSettings == { [k \in K |-> CallerFull[k]] : K \in CallerKeySets }

Targets == { "sdist", "wheel" }

\* The FLEX_SOURCE checkout of setup.py: the set of paths that exist in it,
\* "." being the directory itself.
SrcTrees ==
    { {},
      {"."},
      {".", "doc"},
      {".", "doc", "doc/flex.1"},
      {".", "autogen.sh", "doc"},
      {".", "autogen.sh"},
      {".", "configure"},
      {".", "configure", "doc"},
      {".", "configure", "doc", "doc/flex.1"},
      {".", "configure", "autogen.sh", "doc"} }

\* Where libtoolize/glibtoolize comes from: the LIBTOOLIZE variable of the
\* caller's environment, shutil.which, or nowhere.
Libtoolize == { "env", "which", "none" }

StagePath == "temp/flex-stage/usr/local/bin/flex"
TargetPath == "lib/gnu_flex/bin/flex"

----------------------------------------------------------------------------
VARIABLES
    variant,          \* the build frontend driving the checkout: pdm or setup
    arch,             \* normalised platform.machine()
    sys_platform,     \* sys.platform
    ZIG_TARGET,       \* pdm_build.ZIG_TARGET
    PYPI_ARCH,        \* pdm_build.PYPI_ARCH
    upstream,         \* content of the flex-<version> release archive
    project_root,     \* files next to pdm_build.py (the bundled archive)
    build_dir,        \* files under context.build_dir
    supplied,         \* config_settings the caller handed to the last run
    config_settings,  \* context.builder.config_settings after the last run
    linux_plat_name,  \* local linux_plat_name of the last wheel run
    src_tree,         \* paths in the FLEX_SOURCE checkout (setup.py)
    libtoolize,       \* where libtoolize is found (setup.py)
    build_base,       \* files under build/ (setup.py): build_temp, build_lib
    last,             \* what the last invocation did
    runs,             \* invocations so far
    cachedBefore      \* an invocation before the last downloaded and cached

vars ==
    << variant, arch, sys_platform, ZIG_TARGET, PYPI_ARCH, upstream,
       project_root, build_dir, supplied, config_settings, linux_plat_name,
       src_tree, libtoolize, build_base, last, runs, cachedBefore >>

host == << variant, arch, sys_platform, ZIG_TARGET, PYPI_ARCH, upstream,
           project_root, libtoolize >>

----------------------------------------------------------------------------
\* pdm_build.py

\* _zig_target_for_arch with the amd64 and arm64 aliases forgotten.
_zig_target_for_arch_noalias(a) ==
    IF a \in {"x86_64"} THEN <<"x86_64-linux-musl", "x86_64">>
    ELSE IF a \in {"aarch64"} THEN <<"aarch64-linux-musl", "aarch64">>
    ELSE IF a \in {"i386", "i486", "i586", "i686", "x86"} THEN <<"x86-linux-musl", "i686">>
    ELSE IF a \in {"s390x"} THEN <<"s390x-linux-musl", "s390x">>
    ELSE IF a \in {"armv7l", "armv7"} THEN <<"arm-linux-musleabi", "armv7l">>
    ELSE IF a \in {"ppc64le"} THEN <<"powerpc64le-linux-musl", "ppc64le">>
    ELSE <<None, None>>

_zig_target_for_arch(a) ==
    IF a \in {"x86_64", "amd64"} THEN <<"x86_64-linux-musl", "x86_64">>
    ELSE IF a \in {"aarch64", "arm64"} THEN <<"aarch64-linux-musl", "aarch64">>
    ELSE IF a \in {"i386", "i486", "i586", "i686", "x86"} THEN <<"x86-linux-musl", "i686">>
    ELSE IF a \in {"s390x"} THEN <<"s390x-linux-musl", "s390x">>
    ELSE IF a \in {"armv7l", "armv7"} THEN <<"arm-linux-musleabi", "armv7l">>
    ELSE IF a \in {"ppc64le"} THEN <<"powerpc64le-linux-musl", "ppc64le">>
    ELSE <<None, None>>

\* str.format on a template whose only placeholder, {0}, ends it; the
\* template is written without the placeholder.
format(template, arg) == template \o arg

\* _default_linux_plat_name testing sys.platform == "linux", as build_flex
\* does.
_default_linux_plat_name_strict ==
    IF sys_platform # "linux" THEN PyNone
    ELSE IF PYPI_ARCH = None THEN PyNone
    ELSE LET templates ==
                 IF PYPI_ARCH \in {"x86_64", "i686"}
                 THEN <<"manylinux_2_5_", "manylinux1_", "musllinux_1_1_">>
                 ELSE <<"manylinux_2_17_", "manylinux2014_", "musllinux_1_1_">>
         IN PyList([i \in 1..Len(templates) |-> format(templates[i], PYPI_ARCH)])

_default_linux_plat_name ==
    IF ~startswith(sys_platform, "linux") THEN PyNone
    ELSE IF PYPI_ARCH = None THEN PyNone
    ELSE LET templates ==
                 IF PYPI_ARCH \in {"x86_64", "i686"}
                 THEN <<"manylinux_2_5_", "manylinux1_", "musllinux_1_1_">>
                 ELSE <<"manylinux_2_17_", "manylinux2014_", "musllinux_1_1_">>
         IN PyList([i \in 1..Len(templates) |-> format(templates[i], PYPI_ARCH)])

\* response.raise_for_status() of requests: an HTTPError for the client and
\* server error codes, nothing for any other code.
raise_for_status(response) ==
    IF 400 <= response.status_code /\ response.status_code < 600
    THEN "HTTPError" ELSE NoErr

\* Returns the build directory after the call, the file and network
\* operations made, the status of the response when one was received, and
\* the exception raised, if any.
_ensure_tarball(dir, response) ==
    IF FLEX_TARBALL_NAME \in DOMAIN dir
    THEN [dir |-> dir, steps |-> <<>>, status |-> 0, err |-> NoErr]
    ELSE IF FLEX_TARBALL_NAME \in DOMAIN project_root
    THEN [dir |-> DictSet(dir, FLEX_TARBALL_NAME, project_root[FLEX_TARBALL_NAME]),
          steps |-> <<"copy_bundled">>, status |-> 0, err |-> NoErr]
    ELSE IF response.raised
    THEN [dir |-> dir, steps |-> <<"http_get">>, status |-> 0,
          err |-> "RequestException"]
    ELSE IF raise_for_status(response) # NoErr
    THEN [dir |-> dir, steps |-> <<"http_get">>, status |-> response.status_code,
          err |-> raise_for_status(response)]
    ELSE [dir |-> DictSet(dir, FLEX_TARBALL_NAME, response.content),
          steps |-> <<"http_get", "write_cache">>,
          status |-> response.status_code, err |-> NoErr]

\* The build files of a resolved source tree; entries is what the directory
\* extracted to holds at its top level.
NoSrc == [present |-> FALSE, entries |-> {}, configure |-> FALSE, autogen |-> FALSE]

\* extract_dir is the set of entries already in the directory extracted to.
_resolve_source(tarball, extract_dir) ==
    IF ~tarball.gz THEN [err |-> "ReadError", src |-> NoSrc]
    ELSE LET extracted == extract_dir \cup tarball.roots
         IN IF SrcDirName \notin extracted
            THEN [err |-> "RuntimeError: flex sources not found",
                  src |-> [NoSrc EXCEPT !.entries = extracted]]
            ELSE [err |-> NoErr,
                  src |-> [present |-> TRUE, entries |-> extracted,
                           configure |-> tarball.configure,
                           autogen |-> tarball.autogen]]

\* subprocess.check_call: the command is started when its executable is
\* there, and a non-zero exit status raises.
_run_cmd(cmd, executable, rc) ==
    IF ~executable
    THEN [call |-> [cmd |-> cmd, rc |-> SpawnFailed], err |-> "FileNotFoundError"]
    ELSE IF rc # 0
    THEN [call |-> [cmd |-> cmd, rc |-> rc], err |-> "CalledProcessError"]
    ELSE [call |-> [cmd |-> cmd, rc |-> rc], err |-> NoErr]

\* BuildFlex._run_cmd of setup.py: the same call, a CalledProcessError
\* re-raised as DistutilsExecError.
BuildFlex_run_cmd(cmd, executable, rc) ==
    LET r == _run_cmd(cmd, executable, rc)
    IN IF r.err = "CalledProcessError"
       THEN [r EXCEPT !.err = "DistutilsExecError: Command failed"]
       ELSE r

\* Consecutive _run_cmd calls: the first one that raises ends the sequence.
RECURSIVE RunCmds(_, _, _, _)
RunCmds(cmds, i, done, wrapped) ==
    IF i > Len(cmds) THEN [procs |-> done, err |-> NoErr]
    ELSE LET r == IF wrapped
                  THEN BuildFlex_run_cmd(cmds[i].cmd, cmds[i].executable, cmds[i].rc)
                  ELSE _run_cmd(cmds[i].cmd, cmds[i].executable, cmds[i].rc)
         IN IF r.err # NoErr
            THEN [procs |-> Append(done, r.call), err |-> r.err]
            ELSE RunCmds(cmds, i + 1, Append(done, r.call), wrapped)

CmdNames(procs) == [i \in 1..Len(procs) |-> procs[i].cmd]

\* build_flex without the existence check of lines 144-145.
build_flex_unvalidated(dir, p) ==
    LET cc == IF sys_platform = "linux" /\ ZIG_TARGET # None
              THEN "python-zig cc -target " \o ZIG_TARGET ELSE "inherited"
        r == _resolve_source(dir[FLEX_TARBALL_NAME], {})
        run == RunCmds(<< [cmd |-> "configure", executable |-> r.src.configure,
                           rc |-> p.configure],
                          [cmd |-> "make", executable |-> TRUE, rc |-> p.make],
                          [cmd |-> "install", executable |-> TRUE, rc |-> p.install] >>,
                       1, <<>>, FALSE)
        built_binary == p.binary
        stage_state == IF built_binary THEN "present" ELSE "absent"
        res == [dir |-> dir, cc |-> cc, src |-> r.src, steps |-> <<"extract">>,
                procs |-> <<>>, staged |-> "unchecked", err |-> r.err]
    IN IF r.err # NoErr THEN res
       ELSE IF run.err # NoErr
       THEN [res EXCEPT !.steps = @ \o CmdNames(run.procs), !.procs = run.procs,
                        !.err = run.err]
       ELSE [res EXCEPT !.dir = DictSet(dir, OutputPath, [mode |-> Mode755]),
                        !.steps = @ \o CmdNames(run.procs) \o <<"copy2", "chmod">>,
                        !.procs = run.procs, !.staged = stage_state]

build_flex(dir, p) ==
    LET cc == IF sys_platform = "linux" /\ ZIG_TARGET # None
              THEN "python-zig cc -target " \o ZIG_TARGET ELSE "inherited"
        r == _resolve_source(dir[FLEX_TARBALL_NAME], {})
        run == RunCmds(<< [cmd |-> "configure", executable |-> r.src.configure,
                           rc |-> p.configure],
                          [cmd |-> "make", executable |-> TRUE, rc |-> p.make],
                          [cmd |-> "install", executable |-> TRUE, rc |-> p.install] >>,
                       1, <<>>, FALSE)
        built_binary == p.binary
        stage_state == IF built_binary THEN "present" ELSE "absent"
        res == [dir |-> dir, cc |-> cc, src |-> r.src, steps |-> <<"extract">>,
                procs |-> <<>>, staged |-> "unchecked", err |-> r.err]
    IN IF r.err # NoErr THEN res
       ELSE IF run.err # NoErr
       THEN [res EXCEPT !.steps = @ \o CmdNames(run.procs), !.procs = run.procs,
                        !.err = run.err]
       ELSE IF ~built_binary
       THEN [res EXCEPT !.steps = @ \o CmdNames(run.procs) \o <<"validate">>,
                        !.procs = run.procs, !.staged = stage_state,
                        !.err = "RuntimeError: Expected flex binary missing"]
       ELSE [res EXCEPT !.dir = DictSet(dir, OutputPath, [mode |-> Mode755]),
                        !.steps = @ \o CmdNames(run.procs)
                                    \o <<"validate", "copy2", "chmod">>,
                        !.procs = run.procs, !.staged = stage_state]

\* Lines 87-91 with the caller's settings first and the two tags over them.
initial_config_settings_forced(caller) ==
    DictMerge(caller,
              [k \in {"--python-tag", "--py-limited-api"} |->
                  IF k = "--python-tag" THEN PyStr("py3") ELSE PyStr("none")])

\* Lines 87-91: the two defaults, then the caller's settings over them.
initial_config_settings(caller) ==
    DictMerge([k \in {"--python-tag", "--py-limited-api"} |->
                  IF k = "--python-tag" THEN PyStr("py3") ELSE PyStr("none")],
              caller)

LplUnset == <<"unset">>

\* pdm_build_initialize without the early return of lines 84-85.
pdm_build_initialize_no_sdist_return(target, caller, response, p) ==
    LET t == _ensure_tarball(EmptyDir, response)
        lpn == _default_linux_plat_name
        cs == IF lpn # PyNone
              THEN DictSet(initial_config_settings(caller), "--plat-name", lpn)
              ELSE initial_config_settings(caller)
        b == build_flex(t.dir, p)
        pre == <<"rmtree", "ensure_build_dir">> \o t.steps
        rec == [op |-> "pdm_build_initialize", target |-> target, steps |-> pre,
                status |-> t.status, procs |-> <<>>, staged |-> "unchecked",
                src |-> NoSrc, cc |-> "inherited", err |-> t.err]
    IN IF t.err # NoErr
       THEN [dir |-> t.dir, config |-> caller, lpn |-> LplUnset, last |-> rec]
       ELSE [dir |-> b.dir, config |-> cs, lpn |-> lpn,
             last |-> [rec EXCEPT !.steps = pre \o b.steps, !.procs = b.procs,
                                  !.staged = b.staged, !.src = b.src,
                                  !.cc = b.cc, !.err = b.err]]

\* The whole hook: the build directory, config_settings and the local
\* linux_plat_name it leaves behind, and the record of what it did.
pdm_build_initialize(target, caller, response, p) ==
    LET t == _ensure_tarball(EmptyDir, response)
        lpn == _default_linux_plat_name
        cs == IF lpn # PyNone
              THEN DictSet(initial_config_settings(caller), "--plat-name", lpn)
              ELSE initial_config_settings(caller)
        b == build_flex(t.dir, p)
        pre == <<"rmtree", "ensure_build_dir">> \o t.steps
        rec == [op |-> "pdm_build_initialize", target |-> target, steps |-> pre,
                status |-> t.status, procs |-> <<>>, staged |-> "unchecked",
                src |-> NoSrc, cc |-> "inherited", err |-> t.err]
    IN IF t.err # NoErr \/ target = "sdist"
       THEN [dir |-> t.dir, config |-> caller, lpn |-> LplUnset, last |-> rec]
       ELSE [dir |-> b.dir, config |-> cs, lpn |-> lpn,
             last |-> [rec EXCEPT !.steps = pre \o b.steps, !.procs = b.procs,
                                  !.staged = b.staged, !.src = b.src,
                                  !.cc = b.cc, !.err = b.err]]

NoRun ==
    [op |-> "none", target |-> "none", steps |-> <<>>, status |-> 0,
     procs |-> <<>>, staged |-> "unchecked", src |-> NoSrc, cc |-> "inherited",
     err |-> NoErr]

Downloaded(l) ==
    l.op = "pdm_build_initialize" /\ "write_cache" \in Range(l.steps)

----------------------------------------------------------------------------
\* setup.py

\* BuildFlex.run: the source tree and the build/ tree it leaves behind, and
\* the record of what it did.
BuildFlex_run(ag, p) ==
    LET have_libtoolize == libtoolize # "none"
        rec == [op |-> "BuildFlex.run", target |-> "build", steps |-> <<>>,
                status |-> 0, procs |-> <<>>, staged |-> "unchecked",
                src |-> [present |-> "." \in src_tree, entries |-> {},
                         configure |-> "configure" \in src_tree,
                         autogen |-> "autogen.sh" \in src_tree],
                cc |-> "inherited", err |-> NoErr]
        needs_autogen == "configure" \notin src_tree
        a == BuildFlex_run_cmd("autogen", TRUE, ag.rc)
        \* after lines 57-70
        tree1 == IF needs_autogen /\ ag.generates
                 THEN src_tree \cup {"configure"} ELSE src_tree
        steps1 == IF needs_autogen THEN <<"autogen">> ELSE <<>>
        procs1 == IF needs_autogen THEN <<a.call>> ELSE <<>>
        \* after lines 75-80
        tree2 == tree1 \cup {"doc/flex.1"}
        steps2 == IF "doc/flex.1" \in tree1 THEN steps1
                  ELSE steps1 \o <<"write_man_page">>
        run == RunCmds(<< [cmd |-> "configure", executable |-> TRUE, rc |-> p.configure],
                          [cmd |-> "make", executable |-> TRUE, rc |-> p.make],
                          [cmd |-> "install", executable |-> TRUE, rc |-> p.install] >>,
                       1, <<>>, TRUE)
        \* after lines 91-93: the stage directory is kept between runs
        base1 == IF Len(run.procs) = 3 /\ p.binary
                 THEN DictSet(build_base, StagePath, [mode |-> Mode755])
                 ELSE build_base
        stage_state == IF StagePath \in DOMAIN base1 THEN "present" ELSE "absent"
        steps3 == steps2 \o CmdNames(run.procs)
        procs3 == procs1 \o run.procs
    IN IF "." \notin src_tree
       THEN [tree |-> src_tree, base |-> build_base,
             last |-> [rec EXCEPT !.err = "DistutilsExecError: Flex source not found"]]
       ELSE IF needs_autogen /\ "autogen.sh" \notin src_tree
       THEN [tree |-> src_tree, base |-> build_base,
             last |-> [rec EXCEPT !.err =
                 "DistutilsExecError: configure script missing and autogen.sh not found"]]
       ELSE IF needs_autogen /\ ~have_libtoolize
       THEN [tree |-> src_tree, base |-> build_base,
             last |-> [rec EXCEPT !.err =
                 "DistutilsExecError: autogen.sh requires libtoolize/glibtoolize"]]
       ELSE IF needs_autogen /\ a.err # NoErr
       THEN [tree |-> tree1, base |-> build_base,
             last |-> [rec EXCEPT !.steps = steps1, !.procs = procs1, !.err = a.err]]
       ELSE IF "configure" \notin tree1
       THEN [tree |-> tree1, base |-> build_base,
             last |-> [rec EXCEPT !.steps = steps1, !.procs = procs1, !.err =
                 "DistutilsExecError: configure script still missing after autogen"]]
       ELSE IF "doc/flex.1" \notin tree1 /\ "doc" \notin tree1
       THEN [tree |-> tree1, base |-> build_base,
             last |-> [rec EXCEPT !.steps = steps1, !.procs = procs1,
                                  !.err = "FileNotFoundError"]]
       ELSE IF run.err # NoErr
       THEN [tree |-> tree2, base |-> base1,
             last |-> [rec EXCEPT !.steps = steps3, !.procs = procs3,
                                  !.err = run.err]]
       ELSE IF StagePath \notin DOMAIN base1
       THEN [tree |-> tree2, base |-> base1,
             last |-> [rec EXCEPT !.steps = steps3 \o <<"validate">>,
                                  !.procs = procs3, !.staged = stage_state,
                                  !.err = "DistutilsExecError: flex binary not found"]]
       ELSE [tree |-> tree2,
             base |-> DictSet(base1, TargetPath, [mode |-> Mode755]),
             last |-> [rec EXCEPT !.steps = steps3 \o <<"validate", "mkpath",
                                                         "copy2", "chmod">>,
                                  !.procs = procs3, !.staged = stage_state]]

----------------------------------------------------------------------------
\* Initial states.  A checkout is driven by one frontend, and the two share
\* no file, so a behaviour follows one of them.  The hosts of the pdm
\* frontend are explored in two slices: every architecture and platform
\* against the well-formed release archive, and every archive shape
\* against two hosts.

GoodArchive == Archive({SrcDirName}, TRUE, FALSE)

ArchiveHosts == { "x86_64", "riscv64" }

InitCommon ==
    /\ ZIG_TARGET = _zig_target_for_arch(arch)[1]
    /\ PYPI_ARCH = _zig_target_for_arch(arch)[2]
    /\ build_dir = EmptyDir
    /\ supplied = EmptyDir
    /\ config_settings = EmptyDir
    /\ linux_plat_name = LplUnset
    /\ build_base = EmptyDir
    /\ last = NoRun
    /\ runs = 0
    /\ cachedBefore = FALSE

InitPdm ==
    /\ variant = "pdm"
    /\ \/ /\ arch \in Archs
          /\ sys_platform \in Platforms
          /\ upstream = GoodArchive
       \/ /\ arch \in ArchiveHosts
          /\ sys_platform = "linux"
          /\ upstream \in Archives
    /\ project_root \in {EmptyDir, [f \in {FLEX_TARBALL_NAME} |-> upstream]}
    /\ src_tree = {}
    /\ libtoolize = "none"

InitSetup ==
    /\ variant = "setup"
    /\ arch = "x86_64"
    /\ sys_platform = "linux"
    /\ upstream = GoodArchive
    /\ project_root = EmptyDir
    /\ src_tree \in SrcTrees
    /\ libtoolize \in Libtoolize

Init == (InitPdm \/ InitSetup) /\ InitCommon

\* The inputs a run never reads are not enumerated.
ResponsesRead ==
    IF FLEX_TARBALL_NAME \in DOMAIN project_root
    THEN { [raised |-> TRUE, status_code |-> 0, content |-> NotAnArchive] }
    ELSE Responses(upstream)

PdmBuildInitialize ==
    /\ variant = "pdm"
    /\ runs < MaxRuns
    /\ \E target \in Targets, caller \in CallerSettings, response \in ResponsesRead :
         \E p \in IF target = "sdist" THEN {NoProcs} ELSE ProcOutcomes :
           LET r == pdm_build_initialize(target, caller, response, p)
           IN /\ build_dir' = r.dir
              /\ supplied' = caller
              /\ config_settings' = r.config
              /\ linux_plat_name' = r.lpn
              /\ last' = r.last
    /\ runs' = runs + 1
    /\ cachedBefore' = (cachedBefore \/ Downloaded(last))
    /\ UNCHANGED << host, src_tree, build_base >>

BuildFlexRun ==
    /\ variant = "setup"
    /\ runs < MaxRuns
    /\ \E ag \in IF "configure" \in src_tree THEN {NoAutogen} ELSE AutogenOutcomes,
          p \in ProcOutcomes :
         LET r == BuildFlex_run(ag, p)
         IN /\ src_tree' = r.tree
            /\ build_base' = r.base
            /\ last' = r.last
    /\ runs' = runs + 1
    /\ UNCHANGED << host, build_dir, supplied, config_settings, linux_plat_name,
                    cachedBefore >>

Next == PdmBuildInitialize \/ BuildFlexRun

Spec == Init /\ [][Next]_vars

----------------------------------------------------------------------------
\* Properties

Steps == Range(last.steps)

IsPdmRun == last.op = "pdm_build_initialize"

IsLinuxHost == sys_platform \in {"linux", "linux2"}

\* The exit statuses of the configure, make and install calls of the last run.
BuildCalls == {c \in Range(last.procs) : c.cmd \in {"configure", "make", "install"}}

AllExitZero ==
    /\ {c.cmd : c \in BuildCalls} = {"configure", "make", "install"}
    /\ \A c \in BuildCalls : c.rc = 0

\* C1, as claimed: the resolver returns the pair of the architecture's group
\* for the enumerated strings (x86_64/amd64, aarch64/arm64, i386..i686/x86,
\* s390x, ppc64le) and (None, None) for every other string.
C1_EnumeratedOnly ==
    << ZIG_TARGET, PYPI_ARCH >> =
        CASE arch \in {"x86_64", "amd64"} -> <<"x86_64-linux-musl", "x86_64">>
          [] arch \in {"aarch64", "arm64"} -> <<"aarch64-linux-musl", "aarch64">>
          [] arch \in {"i386", "i486", "i586", "i686", "x86"} -> <<"x86-linux-musl", "i686">>
          [] arch = "s390x" -> <<"s390x-linux-musl", "s390x">>
          [] arch = "ppc64le" -> <<"powerpc64le-linux-musl", "ppc64le">>
          [] OTHER -> <<None, None>>

\* C1, amended: the resolver is total; it returns the pair of the
\* architecture's group for the enumerated strings and for armv7l/armv7
\* (arm-linux-musleabi, armv7l), so aliases of one group give identical
\* pairs, and (None, None) for every other string.
C1_TargetResolution ==
    << ZIG_TARGET, PYPI_ARCH >> =
        CASE arch \in {"x86_64", "amd64"} -> <<"x86_64-linux-musl", "x86_64">>
          [] arch \in {"aarch64", "arm64"} -> <<"aarch64-linux-musl", "aarch64">>
          [] arch \in {"i386", "i486", "i586", "i686", "x86"} -> <<"x86-linux-musl", "i686">>
          [] arch = "s390x" -> <<"s390x-linux-musl", "s390x">>
          [] arch \in {"armv7l", "armv7"} -> <<"arm-linux-musleabi", "armv7l">>
          [] arch = "ppc64le" -> <<"powerpc64le-linux-musl", "ppc64le">>
          [] OTHER -> <<None, None>>

C1_Witness ==
    /\ arch = "amd64"
    /\ ZIG_TARGET = "x86_64-linux-musl"
    /\ PYPI_ARCH = "x86_64"

\* C2: once an earlier run of pdm_build_initialize has downloaded and cached
\* the archive, a later run makes no network call and builds from the cache.
C2_CachedArchiveReused ==
    (IsPdmRun /\ cachedBefore) => "http_get" \notin Steps

\* C3: when configure, make and install all exited with status 0 and the
\* executable is absent from the staging tree, the run ends in an error and
\* neither the copy to the output location nor the chmod is executed.
C3_MissingArtifactIsFatal ==
    (AllExitZero /\ last.staged = "absent") =>
        /\ last.err \in {"RuntimeError: Expected flex binary missing",
                         "DistutilsExecError: flex binary not found"}
        /\ "copy2" \notin Steps
        /\ "chmod" \notin Steps
        /\ last.steps[Len(last.steps)] = "validate"
        /\ IsPdmRun => OutputPath \notin DOMAIN build_dir

C3_Witness ==
    /\ IsPdmRun
    /\ AllExitZero
    /\ last.staged = "absent"
    /\ last.err # NoErr

\* The build steps of the last run, in the order they were made.
BuildSteps ==
    SelectSeq(last.steps,
              LAMBDA x : x \in {"configure", "make", "install", "validate", "copy2"})

IsPrefix(s, t) == Len(s) <= Len(t) /\ s = SubSeq(t, 1, Len(s))

\* C4: the build steps run in the order configure, make, install, validate,
\* copy, each at most once; when one of configure, make, install exits
\* non-zero the run fails there with no later step, and afterwards no
\* executable exists at the final output location.
C4_FailedBuildLeavesNoArtifact ==
    /\ IsPrefix(BuildSteps, <<"configure", "make", "install", "validate", "copy2">>)
    /\ (\E c \in BuildCalls : c.rc # 0) =>
          /\ last.err # NoErr
          /\ last.steps[Len(last.steps)] \in {"configure", "make", "install"}
          /\ OutputPath \notin DOMAIN build_dir
          /\ TargetPath \notin DOMAIN build_base

\* C5: extraction fails when the archive has more than one top-level entry,
\* fails when flex-<version> is absent after extraction, and returns that
\* directory when the archive has exactly that one top-level entry.
C5_Extraction ==
    (IsPdmRun /\ "extract" \in Steps) =>
        /\ Cardinality(last.src.entries) > 1 => ~last.src.present
        /\ SrcDirName \notin last.src.entries =>
              /\ ~last.src.present
              /\ last.err \in {"RuntimeError: flex sources not found", "ReadError"}
        /\ last.src.entries = {SrcDirName} => last.src.present

\* C6: on a source tree with neither a configure script nor an autogen.sh
\* the runner fails before any external process is invoked.
C6_NoBuildFilesNoProcess ==
    (last.src.present /\ ~last.src.configure /\ ~last.src.autogen) =>
        /\ last.err # NoErr
        /\ last.procs = <<>>

\* C7: the source resolver copies the bundled archive when there is one,
\* with no network call; otherwise it makes a single HTTP GET, persists the
\* bytes of a 2xx response to the cache path, and on any other response
\* fails and writes no cache file.  (A cached archive would be returned
\* untouched; the hook never calls the resolver with one.)
C7_SourcePriority ==
    IsPdmRun =>
        IF FLEX_TARBALL_NAME \in DOMAIN project_root
        THEN /\ "http_get" \notin Steps
             /\ "copy_bundled" \in Steps
             /\ FLEX_TARBALL_NAME \in DOMAIN build_dir
             /\ build_dir[FLEX_TARBALL_NAME] = project_root[FLEX_TARBALL_NAME]
        ELSE /\ Len(SelectSeq(last.steps, LAMBDA x : x = "http_get")) = 1
             /\ "copy_bundled" \notin Steps
             /\ IF last.status \in 200..299
                THEN /\ "write_cache" \in Steps
                     /\ FLEX_TARBALL_NAME \in DOMAIN build_dir
                     /\ build_dir[FLEX_TARBALL_NAME] = upstream
                ELSE /\ last.err # NoErr
                     /\ "write_cache" \notin Steps
                     /\ FLEX_TARBALL_NAME \notin DOMAIN build_dir

WheelRunCompleted == IsPdmRun /\ last.target = "wheel" /\ last.err = NoErr

ExpectedPlatName ==
    IF PYPI_ARCH \in {"x86_64", "i686"}
    THEN PyList(<< "manylinux_2_5_" \o PYPI_ARCH, "manylinux1_" \o PYPI_ARCH,
                   "musllinux_1_1_" \o PYPI_ARCH >>)
    ELSE PyList(<< "manylinux_2_17_" \o PYPI_ARCH, "manylinux2014_" \o PYPI_ARCH,
                   "musllinux_1_1_" \o PYPI_ARCH >>)

PlatNameOverridden == IsLinuxHost /\ PYPI_ARCH # None

\* C8, as claimed: after a completed wheel run --python-tag is py3 and
\* --py-limited-api is none whatever the caller supplied, --plat-name is
\* the computed tag list on a Linux host with a mapped architecture, and
\* every other caller-supplied key is preserved.
C8_TagsForced ==
    WheelRunCompleted =>
        /\ config_settings["--python-tag"] = PyStr("py3")
        /\ config_settings["--py-limited-api"] = PyStr("none")
        /\ PlatNameOverridden => config_settings["--plat-name"] = ExpectedPlatName
        /\ \A k \in DOMAIN supplied \ {"--python-tag", "--py-limited-api", "--plat-name"} :
              k \in DOMAIN config_settings /\ config_settings[k] = supplied[k]

\* C8, amended: after a completed wheel run --python-tag is the caller's
\* value when the caller supplied one and py3 otherwise, --py-limited-api
\* is the caller's value when supplied and none otherwise, --plat-name is
\* the computed tag list on a Linux host with a mapped architecture and the
\* caller's value, if any, elsewhere, and every other caller-supplied key
\* is preserved.
C8_TagsDefaulted ==
    WheelRunCompleted =>
        /\ config_settings["--python-tag"] =
              IF "--python-tag" \in DOMAIN supplied
              THEN supplied["--python-tag"] ELSE PyStr("py3")
        /\ config_settings["--py-limited-api"] =
              IF "--py-limited-api" \in DOMAIN supplied
              THEN supplied["--py-limited-api"] ELSE PyStr("none")
        /\ PlatNameOverridden => config_settings["--plat-name"] = ExpectedPlatName
        /\ ~PlatNameOverridden =>
              \A k \in {"--plat-name"} :
                 IF k \in DOMAIN supplied
                 THEN config_settings[k] = supplied[k]
                 ELSE k \notin DOMAIN config_settings
        /\ \A k \in DOMAIN supplied \ {"--python-tag", "--py-limited-api", "--plat-name"} :
              k \in DOMAIN config_settings /\ config_settings[k] = supplied[k]
        /\ DOMAIN config_settings =
              DOMAIN supplied \cup {"--python-tag", "--py-limited-api"}
                 \cup (IF PlatNameOverridden THEN {"--plat-name"} ELSE {})

C8_Witness ==
    /\ WheelRunCompleted
    /\ "--python-tag" \in DOMAIN supplied
    /\ config_settings["--python-tag"] = PyStr("cp39")
    /\ config_settings["--py-limited-api"] = PyStr("none")

\* C9: the platform-tag function returns None exactly when the host is not
\* Linux or the architecture tag is None; otherwise the three tags
\* manylinux_2_5, manylinux1, musllinux_1_1 for x86_64 and i686, and
\* manylinux_2_17, manylinux2014, musllinux_1_1 for the other architectures.
C9_PlatName ==
    linux_plat_name # LplUnset =>
        IF ~IsLinuxHost \/ PYPI_ARCH = None
        THEN linux_plat_name = PyNone
        ELSE /\ linux_plat_name = ExpectedPlatName
             /\ Len(linux_plat_name) = 4

C9_Witness ==
    /\ sys_platform = "linux2"
    /\ linux_plat_name =
          <<"list", "manylinux_2_17_aarch64", "manylinux2014_aarch64",
            "musllinux_1_1_aarch64">>

\* C10: an sdist run stops after source acquisition: the build directory is
\* reset and holds only the archive, no configure, make or install process
\* is started, no executable is written, and config_settings is unchanged.
C10_SdistStopsAfterAcquisition ==
    (IsPdmRun /\ last.target = "sdist") =>
        /\ SubSeq(last.steps, 1, 2) = <<"rmtree", "ensure_build_dir">>
        /\ last.procs = <<>>
        /\ Steps \cap {"extract", "configure", "make", "install", "copy2", "chmod"} = {}
        /\ OutputPath \notin DOMAIN build_dir
        /\ DOMAIN build_dir \subseteq {FLEX_TARBALL_NAME}
        /\ last.err = NoErr => FLEX_TARBALL_NAME \in DOMAIN build_dir
        /\ config_settings = supplied

C10_Witness ==
    /\ IsPdmRun
    /\ last.target = "sdist"
    /\ last.err = NoErr
    /\ FLEX_TARBALL_NAME \in DOMAIN build_dir
    /\ "--python-tag" \in DOMAIN supplied
    /\ config_settings = supplied

====
